---- MODULE Spec2Model ----
(***************************************************************************)
(* Telemetry sampler and experiment orchestrator of                        *)
(* container-telemetry-leakage: runner/run_experiment.py ("experiment")    *)
(* and runner/run_mitigation.py ("mitigation").                            *)
(*                                                                         *)
(* One behaviour is one run of main() of one of the two programs: the      *)
(* schedule is built and shuffled, and for each trial run_one launches a   *)
(* sandbox, samples its accounting source, removes the sandbox and returns *)
(* a row that main appends to the CSV sink.  The sandbox, the kernel's     *)
(* accounting files and docker are the environment: every observation the  *)
(* program makes of them lets the environment advance first.               *)
(*                                                                         *)
(* Spec is that run.  SchedSpec is the schedule alone, built for any       *)
(* outputs of the pseudorandom generator and consumed by the for loop.     *)
(* AppSpec is one invocation of the workload engine, app/main.py, which    *)
(* runs inside the sandbox.                                                *)
(***************************************************************************)
EXTENDS Integers, Sequences, FiniteSets, TLC

VARIABLES
    prog,       \* which program runs: "experiment" | "mitigation"
    reps,       \* repetition count of the run (reps / reps_per_cell)
    cells,      \* the configuration cells of the run, in loop order
    schedule,   \* main(): the shuffled list of trial descriptors
    idx,        \* main(): position of the for loop in schedule (1-based)
    pc,         \* control point of main()/run_one()
    fr,         \* run_one(): its local variables
    row,        \* main(): the dict returned by run_one, NoRow before
    sink,       \* the CSV file OUT_CSV: NoFile or the sequence of its lines
    box,        \* environment: the sandbox of the trial being run
    polls,      \* number of polling iterations that slept, this trial
    moving,     \* environment: the counters the sandboxes of this run move
    hist,       \* history of the trial: successful reads, removal attempts
    rng,        \* state of the generator of module random: its outputs to come
    mt,         \* environment: the outputs the generator yields once seeded
    runhist,    \* history of the run: trials launched, sandboxes not removed
    app         \* the workload engine (app/main.py): its arguments and locals

vars == <<prog, reps, cells, schedule, idx, pc, fr, row, sink, box, polls, moving,
          hist, rng, mt, runhist, app>>

----------------------------------------------------------------------------
(* Bounds of the model. *)

\* Largest value (in counter units) a moving counter is read as.
MaxCounter == 1
\* Largest number of clock ticks between the two reads of the monotonic clock.
MaxElapsed == 1
\* Largest number of polling iterations that go on to sleep, per trial.
MaxPolls == 1
\* Largest repetition count of a run.
MaxReps == 1
\* Largest repetition count of a schedule that is built but not run.
MaxSchedReps == 2

\* One clock tick, in nanoseconds (100 ms).
TickNs == 100 * 1000 * 1000
\* One counter unit of CPU time, in microseconds (one scheduler tick at CLK_TCK).
UnitUsec == 10 * 1000
MiB == 1024 * 1024

\* Termination codes a sandbox reports.
ExitCodes == {0, 1}
\* The process id docker reports for a running sandbox.
Pids == {4242}
ThePid == CHOOSE p \in Pids : TRUE

----------------------------------------------------------------------------
(* Program constants. *)

\* os.sysconf("SC_CLK_TCK")
CLK_TCK == 100
\* range(10) of the baseline retry loop of run_experiment.run_one
BaselineTries == 10
\* wait_for_cgroup(timeout_s = 1.5), time.sleep(0.05), in milliseconds
WaitTimeoutMs == 1500
WaitSleepMs == 50
\* random.seed(...) of the two programs
SeedExperiment == 1337
SeedMitigation == 303

Unclamped(x) == x

\* max(0, x)
Max0(x) == IF x > 0 THEN x ELSE 0
\* max(a, b)
MaxOf(a, b) == IF a >= b THEN a ELSE b

----------------------------------------------------------------------------
(* main(): the schedule. *)

\* levels[intensity][w] of run_experiment.main
levels ==
    [low  |-> [cpu |-> 2000000,  mem |-> 64,  disk |-> 64,  mix |-> 64],
     med  |-> [cpu |-> 6000000,  mem |-> 192, disk |-> 192, mix |-> 192],
     high |-> [cpu |-> 12000000, mem |-> 320, disk |-> 320, mix |-> 320]]

\* The configuration cells a run may have, in the order of the nested loops
\* (run_experiment: for w, for intensity; run_mitigation: for m, for n).
CellChoices(p) ==
    IF p = "experiment"
    THEN { <<[w |-> "cpu", intensity |-> "low"]>>,
           <<[w |-> "cpu", intensity |-> "low"], [w |-> "disk", intensity |-> "high"]>> }
    ELSE { <<[n |-> 0, m |-> "none"]>>,
           <<[n |-> 0, m |-> "none"], [n |-> 3, m |-> "high"]>> }

\* The trial descriptor of cell c and repetition rep.
Descriptor(p, c, rep) ==
    IF p = "experiment"
    THEN [w |-> c.w, intensity |-> c.intensity, rep |-> rep]
    ELSE [n |-> c.n, m |-> c.m, rep |-> rep]

\* schedule.append(...) in the nested loops: cell-major, rep = 0..reps-1.
Unshuffled(p, cs, r) ==
    [k \in 1..(Len(cs) * r) |->
        Descriptor(p, cs[((k - 1) \div r) + 1], (k - 1) % r)]

\* The longest schedule of any specification: two cells, each repeated.
MaxTrials == 2 * MaxOf(MaxReps, MaxSchedReps)

\* A state of the generator of module random: the raw outputs it will yield,
\* next one first (as many as the shuffle of the longest schedule draws).
\* Position d holds a value below MaxTrials - d + 1, the largest bound the
\* d-th draw of a shuffle is reduced by.
Streams == {g \in [1..(MaxTrials - 1) -> 0..(MaxTrials - 1)] :
               \A d \in 1..(MaxTrials - 1) : g[d] <= MaxTrials - d}

\* The outputs of the generator seeded with a.  Stands for the Mersenne
\* Twister: a fixed function of the seed.
Twister(a) == [d \in 1..(MaxTrials - 1) |-> ((a + 1) * (2 * d + 1)) % (MaxTrials - d + 1)]

\* The states module random may be in when main() starts: it seeds itself
\* from the operating system's entropy at import.
Unseeded == {[d \in 1..(MaxTrials - 1) |-> 0], [d \in 1..(MaxTrials - 1) |-> 1]}

NotReseeded(g, a, m) == g

\* random.seed(a): whatever the state g was, the generator restarts with the
\* outputs m gives for seed a.
Reseeded(g, a, m) == m[a]

\* randbelow(n) in state g.
RandBelow(g, n) == Head(g) % n

SwapOverwrite(x, i, j) == [x EXCEPT ![i] = x[j]]

\* x[i], x[j] = x[j], x[i]
Swap(x, i, j) == [x EXCEPT ![i] = x[j], ![j] = x[i]]

\* random.shuffle(x): for i in reversed(range(1, len(x))):
\*     j = randbelow(i + 1); x[i], x[j] = x[j], x[i]      (0-based i, j)
RECURSIVE ShuffleFrom(_, _, _)
ShuffleFrom(x, i, g) ==
    IF i < 1 THEN x
    ELSE ShuffleFrom(Swap(x, i + 1, RandBelow(g, i + 1) + 1), i - 1, Tail(g))

Shuffle(x, g) == ShuffleFrom(x, Len(x) - 1, g)

\* The state of the generator after random.shuffle of a list of n entries.
Drawn(g, n) == SubSeq(g, n, Len(g))

Seed(p) == IF p = "experiment" THEN SeedExperiment ELSE SeedMitigation

\* main(): the nested loops, random.seed(...), random.shuffle(schedule).
BuildSchedule(p, cs, r, g, m) ==
    Shuffle(Unshuffled(p, cs, r), Reseeded(g, Seed(p), m))

----------------------------------------------------------------------------
(* Environment: the sandbox, its process and its accounting files. *)

CgFiles == {"cpu.stat", "memory.current"}

\* exists:   docker knows the container
\* alive:    the workload process runs
\* procfs:   /proc/<pid> exists
\* files:    which of the grouped-controller files exist
\* reported: docker inspect reports State.Running = true
NoBox == [exists |-> FALSE, alive |-> FALSE, procfs |-> FALSE,
          files |-> {}, reported |-> FALSE]

FreshBox == [exists |-> TRUE, alive |-> TRUE, procfs |-> TRUE,
             files |-> {}, reported |-> TRUE]

BoxStates ==
    [exists : {TRUE}, alive : BOOLEAN, procfs : BOOLEAN,
     files : SUBSET CgFiles, reported : BOOLEAN]

\* The environment may move from b to c without the program taking a step:
\* while the process runs its accounting files appear; the process exits and
\* its accounting files go with it; after it has exited /proc/<pid> vanishes
\* and docker notices, in either order.
Evolves(b, c) ==
    /\ b.exists /\ c.exists
    /\ (c.alive => b.alive)
    /\ IF c.alive
       THEN /\ c.procfs /\ c.reported
            /\ b.files \subseteq c.files
       ELSE /\ (c.procfs => b.procfs)
            /\ (c.reported => b.reported)
            /\ c.files = {}

Advance(b) == IF b.exists THEN {c \in BoxStates : Evolves(b, c)} ELSE {b}

----------------------------------------------------------------------------
(* Accounting samples.  cpu is CPU time in microseconds (the code holds *)
(* seconds as a float), mem, rd, wr are bytes.                            *)

None == [cpu |-> -1, mem |-> -1, rd |-> -1, wr |-> -1]

\* The quantities a run's environment may move: the four counters of a
\* sandbox and the monotonic clock.  A run of a single trial moves the clock
\* and CPU time, or memory, or the two I/O counters; in a run of several
\* trials all of them stand still (their rows would otherwise multiply the
\* state space; run_one keeps nothing from one trial to the next).
MovingChoices(cs, r) ==
    IF Len(cs) * r = 1
    THEN {{"clock", "cpu"}, {"clock", "mem"}, {"clock", "rd", "wr"}}
    ELSE {{}}

\* The values counter k is read as, in counter units.
Counters(mv, k) == IF k \in mv THEN 0..MaxCounter ELSE {0}

\* Contents of cpu.stat (usage_usec), memory.current, io.stat (summed rbytes,
\* wbytes; io present or not).
CgroupContents(mv) ==
    [usage_usec : {k * UnitUsec : k \in Counters(mv, "cpu")},
     memory_current : {k * MiB : k \in Counters(mv, "mem")},
     rbytes : {k * MiB : k \in Counters(mv, "rd")},
     wbytes : {k * MiB : k \in Counters(mv, "wr")},
     io_exists : BOOLEAN]

\* Contents of /proc/<pid>/stat (utime + stime ticks), status (VmRSS kB), io.
ProcContents(mv) ==
    [ticks : Counters(mv, "cpu"),
     vmrss_kb : {k * 1024 : k \in Counters(mv, "mem")},
     read_bytes : {k * MiB : k \in Counters(mv, "rd")},
     write_bytes : {k * MiB : k \in Counters(mv, "wr")}]

\* sample_cgroup of both programs on readable files.
sample_cgroup(c) ==
    [cpu |-> c.usage_usec,
     mem |-> c.memory_current,
     rd  |-> IF c.io_exists THEN c.rbytes ELSE 0,
     wr  |-> IF c.io_exists THEN c.wbytes ELSE 0]

\* sample_proc on readable files: ticks / CLK_TCK seconds, VmRSS kB * 1024.
sample_proc(c) ==
    [cpu |-> c.ticks * (1000000 \div CLK_TCK),
     mem |-> c.vmrss_kb * 1024,
     rd  |-> c.read_bytes,
     wr  |-> c.write_bytes]

\* What opening and reading the files of a source does: "ok", "enoent" (a
\* file does not exist) or "eother" (another OSError, ENODEV or ESRCH: the
\* source went away between open and read; only after the process has exited).
CgroupFileResult(b) ==
    (IF CgFiles \subseteq b.files THEN {"ok"} ELSE {"enoent"})
        \cup (IF ~b.alive THEN {"eother"} ELSE {})

ProcFileResult(b) ==
    (IF b.procfs THEN {"ok"} ELSE {"enoent"})
        \cup (IF ~b.alive THEN {"eother"} ELSE {})

\* The exception a failed read surfaces as.  run_experiment reads with
\* Path.read_text()/open(): FileNotFoundError for a missing file, the OSError
\* itself otherwise.  run_mitigation's read_kv_file and sample_cgroup turn
\* FileNotFoundError and OSError alike into FileNotFoundError.
Raised(p, res) ==
    IF p = "mitigation" THEN "FileNotFoundError"
    ELSE IF res = "enoent" THEN "FileNotFoundError" ELSE "OSError"

Ok(s) == [kind |-> "ok", s |-> s]
Fail(e) == [kind |-> e, s |-> None]

\* The outcomes of one accounting read of program p in environment b.
ReadCgroup(p, b, mv) ==
    UNION { IF res = "ok"
            THEN {Ok(sample_cgroup(c)) : c \in CgroupContents(mv)}
            ELSE {Fail(Raised(p, res))} : res \in CgroupFileResult(b) }

ReadProc(p, b, mv) ==
    UNION { IF res = "ok"
            THEN {Ok(sample_proc(c)) : c \in ProcContents(mv)}
            ELSE {Fail(Raised(p, res))} : res \in ProcFileResult(b) }

\* sample_cgroup(cg) if use_cg else sample_proc(pid)
Sample(p, use_cg, b, mv) ==
    IF use_cg THEN ReadCgroup(p, b, mv) ELSE ReadProc(p, b, mv)

\* docker inspect -f {{.State.Pid}}: 0 for a container that is not running,
\* and 0 when inspect prints nothing.
get_container_pid(b) == IF b.exists /\ b.reported THEN ThePid ELSE 0

\* docker inspect -f {{.State.Running}}
is_running(b) == b.exists /\ b.reported

\* proc_exists(pid)
proc_exists(b) == b.procfs

\* docker inspect -f {{.State.ExitCode}}: the values get_exit_code can return.
\* 1 when inspect prints nothing (no such container); 0 while docker reports
\* the container running; its termination code otherwise.
get_exit_code(b) ==
    IF ~b.exists THEN {1}
    ELSE IF b.reported THEN {0}
    ELSE ExitCodes

----------------------------------------------------------------------------
(* run_one(): locals and the returned row. *)

\* path: which return statement the trial is heading for:
\*   "nopid" (pid <= 0), "nobase" (no baseline sample), "complete".
\* runtime_ns is t1 - t0, -1 until t1 has been read; exit_code is -1 until read.
\* write_header is the local of main()'s loop body, set when the sink is opened.
EmptyFrame ==
    [run_id |-> 0, pid |-> 0, cg |-> "None", use_cg |-> FALSE,
     s0 |-> None, last |-> None, mem_peak |-> 0,
     tries |-> 0, waited |-> 0,
     cpu1 |-> 0, r1 |-> 0, w1 |-> 0,
     runtime_ns |-> -1, exit_code |-> -1, path |-> "none",
     write_header |-> FALSE]

\* History of the current trial (not program state): whether its sandbox was
\* created, how often its removal was attempted and with what return code,
\* the baseline sample, the last sample read successfully, the mem values
\* read successfully, the sources they were read from, and the exception
\* that ended main, if any.
EmptyHist ==
    [created |-> FALSE, rm |-> 0, rc |-> 0,
     base |-> None, last |-> None, mems |-> {}, srcs |-> {}, exc |-> "none"]

\* History of the run (not program state): the descriptors run_one has been
\* called with, in order; the run ids of the sandboxes created and not yet
\* removed; the number of trials whose exit code has been read.
EmptyRun == [started |-> << >>, live |-> {}, codes |-> 0]

\* t1 - t0 for two reads of time.monotonic_ns()
Elapsed(mv) == {d * TickNs : d \in (IF "clock" \in mv THEN 0..MaxElapsed ELSE {1})}

\* (cpu_delta_s / runtime_s * 100.0) if runtime_s > 0 else 0.0, whole percent;
\* cpu_delta in microseconds, runtime in nanoseconds.
AvgCpuPercent(cpu_delta_us, runtime_ns) ==
    IF runtime_ns > 0 THEN (cpu_delta_us * 100) \div (runtime_ns \div 1000) ELSE 0

\* The descriptor columns of a row, in the order of the dict literal.
DescriptorColumns(p, d, run_id) ==
    IF p = "experiment"
    THEN << <<"run_id", run_id>>, <<"workload", d.w>>, <<"intensity", d.intensity>>,
            <<"N", levels[d.intensity][d.w]>>, <<"rep", d.rep>> >>
    ELSE << <<"run_id", run_id>>, <<"workload", "secret">>, <<"secret_N", d.n>>,
            <<"mitigation", d.m>>, <<"rep", d.rep>> >>

MetricColumns(runtime_ns, cpu, mem, rd, wr, code) ==
    << <<"runtime_ms", runtime_ns \div 1000000>>,
       <<"avg_cpu_percent", cpu>>,
       <<"max_mem_mib", mem>>,
       <<"blk_read_mib", rd>>,
       <<"blk_write_mib", wr>>,
       <<"exit_code", code>> >>

DegradedRowSlip(p, d, f) ==
    DescriptorColumns(p, d, f.run_id)
        \o MetricColumns(f.runtime_ns, 0, 0, 0, f.exit_code, f.exit_code)

\* The dict returned on the pid <= 0 path and on the s0 / cg is None path.
DegradedRow(p, d, f) ==
    DescriptorColumns(p, d, f.run_id)
        \o MetricColumns(f.runtime_ns, 0, 0, 0, 0, f.exit_code)

\* The sample the deltas are taken to: run_experiment uses the final sample
\* (cpu1, r1, w1, which start as the baseline), run_mitigation uses last.
EndSample(p, f) ==
    IF p = "experiment"
    THEN [cpu |-> f.cpu1, rd |-> f.r1, wr |-> f.w1]
    ELSE [cpu |-> f.last.cpu, rd |-> f.last.rd, wr |-> f.last.wr]

\* The dict returned at the end of run_one.
CompleteRow(p, d, f) ==
    DescriptorColumns(p, d, f.run_id)
        \o MetricColumns(
            f.runtime_ns,
            AvgCpuPercent(Max0(EndSample(p, f).cpu - f.s0.cpu), f.runtime_ns),
            f.mem_peak \div MiB,
            Max0(EndSample(p, f).rd - f.s0.rd) \div MiB,
            Max0(EndSample(p, f).wr - f.s0.wr) \div MiB,
            f.exit_code)

ResultShortDegraded(p, d, f, rc) ==
    IF f.path = "complete"
    THEN CompleteRow(p, d, f)
    ELSE DescriptorColumns(p, d, f.run_id)
            \o << <<"runtime_ms", f.runtime_ns \div 1000000>>,
                  <<"exit_code", f.exit_code>> >>

\* The row run_one returns; rc is the return code of docker rm -f, which is
\* run with check=False and whose result is not looked at.
Result(p, d, f, rc) ==
    IF f.path = "complete" THEN CompleteRow(p, d, f) ELSE DegradedRow(p, d, f)

\* subprocess.run([... "rm", "-f", name], check=False): never raises.
RmRaisesChecked(rc) == rc # 0

RmRaises(rc) == FALSE

NoRow == << >>

\* Value of column k of row r.
Field(r, k) == r[CHOOSE i \in 1..Len(r) : r[i][1] = k][2]

\* The column names of a row, in order: list(row.keys()).
Keys(r) == [i \in 1..Len(r) |-> r[i][1]]
Values(r) == [i \in 1..Len(r) |-> r[i][2]]

----------------------------------------------------------------------------
(* The sink: OUT_CSV. *)

NoFile == [exists |-> FALSE, lines |-> << >>]

HeaderLine(r) == [header |-> TRUE, cols |-> Keys(r)]
RowLine(r) == [header |-> FALSE, cols |-> Values(r)]

\* A file an earlier run created and never wrote: the run was stopped, or
\* its write failed, between open(OUT_CSV, "a") and the close of the file.
EmptyFile == [exists |-> TRUE, lines |-> << >>]

\* A file an earlier run of the same program left behind.
PriorFile(p) ==
    LET cs == CHOOSE c \in CellChoices(p) : Len(c) = 1
        old == DegradedRow(p, Descriptor(p, cs[1], 0),
                           [EmptyFrame EXCEPT !.runtime_ns = 0, !.exit_code = 1])
    IN  [exists |-> TRUE, lines |-> <<HeaderLine(old), RowLine(old)>>]

\* What main() may find at OUT_CSV when it starts.
LeftBehind(p) == {NoFile, PriorFile(p), EmptyFile}

----------------------------------------------------------------------------
(* Initial state: main() is about to start. *)

\* The workload engine is not part of a run of the orchestrator's model.
AppOff == [pc |-> "off"]

Programs == {"experiment", "mitigation"}

Init ==
    /\ prog \in Programs
    /\ reps \in 1..MaxReps
    /\ cells \in CellChoices(prog)
    /\ schedule = << >>
    /\ idx = 1
    /\ pc = "main"
    /\ fr = EmptyFrame
    /\ row = NoRow
    /\ sink \in LeftBehind(prog)
    /\ box = NoBox
    /\ polls = 0
    /\ moving \in MovingChoices(cells, reps)
    /\ hist = EmptyHist
    /\ rng \in Unseeded
    /\ mt = [a \in {Seed(prog)} |-> Twister(a)]
    /\ runhist = EmptyRun
    /\ app = AppOff

\* The descriptor of the trial run_one is running.
Trial == schedule[idx]

\* An uncaught exception e leaves run_one and main.
Crash(e) ==
    /\ pc' = "crashed"
    /\ hist' = [hist EXCEPT !.exc = e]

\* A successful accounting read s enters the history.
Seen(h, s) ==
    [h EXCEPT !.last = s, !.mems = @ \cup {s.mem}]

\* ... together with the source it was read from.
SeenFrom(h, s, use_cg) ==
    [Seen(h, s) EXCEPT !.srcs = @ \cup {IF use_cg THEN "cgroup" ELSE "proc"}]

----------------------------------------------------------------------------
(* main() up to the call of run_one. *)

\* main(): makedirs, build and shuffle the schedule; run_mitigation also
\* removes an existing OUT_CSV.
MainStart ==
    /\ pc = "main"
    /\ schedule' = BuildSchedule(prog, cells, reps, rng, mt)
    /\ rng' = Drawn(Reseeded(rng, Seed(prog), mt), Len(cells) * reps)
    /\ sink' = IF prog = "mitigation" THEN NoFile ELSE sink
    /\ pc' = "loop"
    /\ UNCHANGED <<prog, reps, cells, idx, fr, row, box, polls, moving, hist, mt, runhist, app>>

\* for (...) in schedule: the next trial enters run_one, or the loop ends.
LoopNext ==
    /\ pc = "loop"
    /\ IF idx <= Len(schedule)
       THEN /\ fr' = [EmptyFrame EXCEPT !.run_id = idx]
            /\ hist' = EmptyHist
            /\ runhist' = [runhist EXCEPT !.started = Append(@, Trial)]
            /\ polls' = 0
            /\ pc' = "docker_run"
       ELSE /\ pc' = "done"
            /\ UNCHANGED <<fr, hist, runhist, polls>>
    /\ UNCHANGED <<prog, reps, cells, schedule, idx, row, sink, box, moving, rng, mt, app>>

----------------------------------------------------------------------------
(* run_one(): start of the trial. *)

ReturnStepRemoveFirst(p) ==
    CASE p = "sampled" -> "rm"
      [] p = "rm" -> "exit_code"
      [] p = "exit_code" -> "append"

\* The end of run_one on each of its three paths, in the order of the code:
\* once sampling is over, exit_code = get_exit_code(name), then docker rm -f,
\* then the return to main, which appends the row.
ReturnStep(p) ==
    CASE p = "sampled" -> "exit_code"
      [] p = "exit_code" -> "rm"
      [] p = "rm" -> "append"

\* t0 = monotonic_ns(); sh(cmd, check=True): CalledProcessError when docker
\* run reports failure.
DockerRun ==
    /\ pc = "docker_run"
    /\ \E ok \in BOOLEAN :
          IF ok
          THEN /\ box' = FreshBox
               /\ hist' = [hist EXCEPT !.created = TRUE]
               /\ runhist' = [runhist EXCEPT !.live = @ \cup {fr.run_id}]
               /\ pc' = "get_pid"
          ELSE /\ Crash("CalledProcessError")
               /\ UNCHANGED <<box, runhist>>
    /\ UNCHANGED <<prog, reps, cells, schedule, idx, fr, row, sink, polls, moving, rng, mt, app>>

\* pid = get_container_pid(name); if pid <= 0: ... (the degraded return)
GetPid ==
    /\ pc = "get_pid"
    /\ \E b \in Advance(box) :
          LET pid == get_container_pid(b) IN
          /\ box' = b
          /\ IF pid <= 0
             THEN /\ fr' = [fr EXCEPT !.pid = pid, !.path = "nopid"]
                  /\ pc' = ReturnStep("sampled")
             ELSE /\ fr' = [fr EXCEPT !.pid = pid]
                  /\ pc' = IF prog = "experiment" THEN "probe" ELSE "wait_cg"
    /\ UNCHANGED <<prog, reps, cells, schedule, idx, row, sink, polls, moving, hist, rng, mt, runhist, app>>

\* get_cgroup_dir_from_pid(pid): the directory of the "0::" line of
\* /proc/<pid>/cgroup (v2: whether the host has that line), None otherwise.
get_cgroup_dir_from_pid(b, v2) == IF b.procfs /\ v2 THEN "cgdir" ELSE "None"

\* cgroup_available(cg) / the test of wait_for_cgroup: both files exist.
cgroup_available(b) == "memory.current" \in b.files /\ "cpu.stat" \in b.files

\* run_experiment: cg = get_cgroup_dir_from_pid(pid);
\* use_cg = (cg is not None and cgroup_available(cg))
Probe ==
    /\ pc = "probe"
    /\ \E b \in Advance(box), v2 \in BOOLEAN :
          LET cg == get_cgroup_dir_from_pid(b, v2) IN
          /\ box' = b
          /\ fr' = [fr EXCEPT !.cg = cg,
                              !.use_cg = (cg # "None" /\ cgroup_available(b))]
    /\ pc' = "base_check"
    /\ UNCHANGED <<prog, reps, cells, schedule, idx, row, sink, polls, moving, hist, rng, mt, runhist, app>>

SourceReprobed(f, b) == f.cg # "None" /\ cgroup_available(b)

\* sample_cgroup(cg) if use_cg else sample_proc(pid): every read of the trial
\* branches on the local use_cg, whatever the files of b are by then.
SourceOf(f, b) == f.use_cg

\* The trial has no baseline sample: the second degraded return.
NoBaseline(f) == [f EXCEPT !.path = "nobase"]

\* run_experiment, baseline loop: for _ in range(10): if not proc_exists(pid):
\* break.  The loop running out, or the break, leaves s0 None.
BaselineCheck ==
    /\ pc = "base_check"
    /\ IF fr.tries < BaselineTries
       THEN \E b \in Advance(box) :
              /\ box' = b
              /\ IF proc_exists(b)
                 THEN /\ pc' = "base_read"
                      /\ UNCHANGED fr
                 ELSE /\ pc' = ReturnStep("sampled")
                      /\ fr' = NoBaseline(fr)
       ELSE /\ pc' = ReturnStep("sampled")
            /\ fr' = NoBaseline(fr)
            /\ UNCHANGED box
    /\ UNCHANGED <<prog, reps, cells, schedule, idx, row, sink, polls, moving, hist, rng, mt, runhist, app>>

\* The baseline sample s enters the locals: cpu0, r0, w0 are s0's fields,
\* mem_peak = s0.rss_bytes; run_mitigation also sets last = s0.
WithBaseline(p, f, s) ==
    [f EXCEPT !.s0 = s, !.mem_peak = s.mem,
              !.last = IF p = "mitigation" THEN s ELSE @]

\* run_experiment, baseline loop: try: s0 = sample...; break
\* except FileNotFoundError: time.sleep(0.05)
BaselineRead ==
    /\ pc = "base_read"
    /\ \E b \in Advance(box) :
       \E out \in Sample(prog, SourceOf(fr, b), b, moving) :
          /\ box' = b
          /\ CASE out.kind = "ok" ->
                    /\ fr' = WithBaseline(prog, fr, out.s)
                    /\ hist' = [SeenFrom(hist, out.s, SourceOf(fr, b)) EXCEPT !.base = out.s]
                    /\ pc' = "poll_check"
               [] out.kind = "FileNotFoundError" ->
                    /\ fr' = [fr EXCEPT !.tries = @ + 1]
                    /\ pc' = "base_check"
                    /\ UNCHANGED hist
               [] OTHER ->
                    /\ Crash(out.kind)
                    /\ UNCHANGED fr
    /\ UNCHANGED <<prog, reps, cells, schedule, idx, row, sink, polls, moving, rng, mt, runhist, app>>

\* run_mitigation, wait_for_cgroup: while time.time() < t_end: ... sleep(0.05);
\* returns the directory once both files exist, None at the deadline.
WaitForCgroup ==
    /\ pc = "wait_cg"
    /\ IF fr.waited < WaitTimeoutMs
       THEN \E b \in Advance(box), v2 \in BOOLEAN :
              LET cg == get_cgroup_dir_from_pid(b, v2) IN
              /\ box' = b
              /\ IF cg # "None" /\ cgroup_available(b)
                 THEN /\ fr' = [fr EXCEPT !.cg = cg, !.use_cg = TRUE]
                      /\ pc' = "base_m"
                 ELSE /\ fr' = [fr EXCEPT !.waited = @ + WaitSleepMs]
                      /\ pc' = "wait_cg"
       ELSE /\ fr' = NoBaseline(fr)
            /\ pc' = ReturnStep("sampled")
            /\ UNCHANGED box
    /\ UNCHANGED <<prog, reps, cells, schedule, idx, row, sink, polls, moving, hist, rng, mt, runhist, app>>

\* run_mitigation: s0 = sample_cgroup(cg); last = s0; mem_peak = s0.mem_current
\* (outside any try).
BaselineM ==
    /\ pc = "base_m"
    /\ \E b \in Advance(box) :
       \E out \in Sample(prog, TRUE, b, moving) :
          /\ box' = b
          /\ IF out.kind = "ok"
             THEN /\ fr' = WithBaseline(prog, fr, out.s)
                  /\ hist' = [SeenFrom(hist, out.s, TRUE) EXCEPT !.base = out.s]
                  /\ pc' = "poll_read"
             ELSE /\ Crash(out.kind)
                  /\ UNCHANGED fr
    /\ UNCHANGED <<prog, reps, cells, schedule, idx, row, sink, polls, moving, rng, mt, runhist, app>>

----------------------------------------------------------------------------
(* run_one(): the polling loop. *)

WithSampleNoMax(p, f, s) ==
    [f EXCEPT !.mem_peak = s.mem,
              !.last = IF p = "mitigation" THEN s ELSE @]

\* mem_peak = max(mem_peak, s.rss_bytes); run_mitigation also sets last = s.
WithSample(p, f, s) ==
    [f EXCEPT !.mem_peak = MaxOf(@, s.mem),
              !.last = IF p = "mitigation" THEN s ELSE @]

\* Leaving the while loop: t1 = monotonic_ns(); run_experiment goes on to its
\* final sample, run_mitigation to the result.
AfterLoop(f, dt) == [f EXCEPT !.runtime_ns = dt, !.path = "complete"]

LoopExitPc(p) == IF p = "experiment" THEN "final_check" ELSE ReturnStep("sampled")

\* run_experiment, while True: if not proc_exists(pid): break
PollCheck ==
    /\ pc = "poll_check"
    /\ \E b \in Advance(box) :
          /\ box' = b
          /\ IF proc_exists(b)
             THEN /\ pc' = "poll_read"
                  /\ UNCHANGED fr
             ELSE \E dt \in Elapsed(moving) :
                  /\ fr' = AfterLoop(fr, dt)
                  /\ pc' = LoopExitPc(prog)
    /\ UNCHANGED <<prog, reps, cells, schedule, idx, row, sink, polls, moving, hist, rng, mt, runhist, app>>

\* while True: try: s = sample...; mem_peak = max(...)
\* except FileNotFoundError: break
PollRead ==
    /\ pc = "poll_read"
    /\ \E b \in Advance(box) :
       \E out \in Sample(prog, SourceOf(fr, b), b, moving) :
          /\ box' = b
          /\ CASE out.kind = "ok" ->
                    /\ fr' = WithSample(prog, fr, out.s)
                    /\ hist' = SeenFrom(hist, out.s, SourceOf(fr, b))
                    /\ pc' = "poll_running"
               [] out.kind = "FileNotFoundError" ->
                    /\ \E dt \in Elapsed(moving) : fr' = AfterLoop(fr, dt)
                    /\ pc' = LoopExitPc(prog)
                    /\ UNCHANGED hist
               [] OTHER ->
                    /\ Crash(out.kind)
                    /\ UNCHANGED fr
    /\ UNCHANGED <<prog, reps, cells, schedule, idx, row, sink, polls, moving, rng, mt, runhist, app>>

\* if not is_running(name): break; time.sleep(poll_interval_s)
PollRunning ==
    /\ pc = "poll_running"
    /\ \E b \in Advance(box) :
          /\ box' = b
          /\ IF is_running(b)
             THEN /\ polls < MaxPolls
                  /\ polls' = polls + 1
                  /\ pc' = IF prog = "experiment" THEN "poll_check" ELSE "poll_read"
                  /\ UNCHANGED fr
             ELSE /\ \E dt \in Elapsed(moving) : fr' = AfterLoop(fr, dt)
                  /\ pc' = LoopExitPc(prog)
                  /\ UNCHANGED polls
    /\ UNCHANGED <<prog, reps, cells, schedule, idx, row, sink, moving, hist, rng, mt, runhist, app>>

\* run_experiment: cpu1 = cpu0; r1, w1 = r0, w0; if proc_exists(pid): ...
FinalCheck ==
    /\ pc = "final_check"
    /\ \E b \in Advance(box) :
          /\ box' = b
          /\ fr' = [fr EXCEPT !.cpu1 = fr.s0.cpu, !.r1 = fr.s0.rd, !.w1 = fr.s0.wr]
          /\ pc' = IF proc_exists(b) THEN "final_read" ELSE ReturnStep("sampled")
    /\ UNCHANGED <<prog, reps, cells, schedule, idx, row, sink, polls, moving, hist, rng, mt, runhist, app>>

\* cpu1 = sf.cpu_seconds; r1, w1 = ...; mem_peak = max(mem_peak, sf.rss_bytes)
WithFinal(f, s) ==
    [f EXCEPT !.cpu1 = s.cpu, !.r1 = s.rd, !.w1 = s.wr,
              !.mem_peak = MaxOf(@, s.mem)]

\* run_experiment: try: sf = sample...  except FileNotFoundError: pass
FinalRead ==
    /\ pc = "final_read"
    /\ \E b \in Advance(box) :
       \E out \in Sample(prog, SourceOf(fr, b), b, moving) :
          /\ box' = b
          /\ CASE out.kind = "ok" ->
                    /\ fr' = WithFinal(fr, out.s)
                    /\ hist' = SeenFrom(hist, out.s, SourceOf(fr, b))
                    /\ pc' = ReturnStep("sampled")
               [] out.kind = "FileNotFoundError" ->
                    /\ pc' = ReturnStep("sampled")
                    /\ UNCHANGED <<fr, hist>>
               [] OTHER ->
                    /\ Crash(out.kind)
                    /\ UNCHANGED fr
    /\ UNCHANGED <<prog, reps, cells, schedule, idx, row, sink, polls, moving, rng, mt, runhist, app>>

----------------------------------------------------------------------------
(* run_one(): exit code, removal, return; main(): the append. *)

\* exit_code = get_exit_code(name); on the s0 / cg is None path t1 is read
\* right after it.
GetExitCode ==
    /\ pc = "exit_code"
    /\ \E b \in Advance(box) :
       \E c \in get_exit_code(b) :
       \E dt \in Elapsed(moving) :
          /\ box' = b
          /\ fr' = [fr EXCEPT !.exit_code = c,
                              !.runtime_ns = IF fr.path = "nobase" THEN dt ELSE @]
    /\ runhist' = [runhist EXCEPT !.codes = @ + 1]
    /\ pc' = ReturnStep("exit_code")
    /\ UNCHANGED <<prog, reps, cells, schedule, idx, row, sink, polls, moving, hist, rng, mt, app>>

\* Return codes of docker rm -f: 0, or 1 when there is nothing to remove.
RmCodes == {0, 1}

NotRemoved(b) == b

\* docker rm -f name: the sandbox is gone afterwards, running or not.
Removed(b) == NoBox

\* subprocess.run(["docker", "rm", "-f", name], check=False, ...); on the
\* pid <= 0 path t1 is read after it; return {...}
Remove ==
    /\ pc = "rm"
    /\ \E rc \in RmCodes :
       \E dt \in Elapsed(moving) :
          LET f == [fr EXCEPT !.runtime_ns = IF fr.path = "nopid" THEN dt ELSE @] IN
          /\ box' = Removed(box)
          /\ runhist' = [runhist EXCEPT
                            !.live = IF Removed(box).exists THEN @ ELSE @ \ {fr.run_id}]
          /\ IF RmRaises(rc)
             THEN /\ pc' = "crashed"
                  /\ hist' = [hist EXCEPT !.rm = @ + 1, !.rc = rc,
                                          !.exc = "CalledProcessError"]
                  /\ UNCHANGED <<fr, row>>
             ELSE /\ pc' = ReturnStep("rm")
                  /\ hist' = [hist EXCEPT !.rm = @ + 1, !.rc = rc]
                  /\ fr' = f
                  /\ row' = Result(prog, Trial, f, rc)
    /\ UNCHANGED <<prog, reps, cells, schedule, idx, sink, polls, moving, rng, mt, app>>

\* open(OUT_CSV, "a", newline=""): the file exists afterwards, its lines kept.
Opened(file) == [exists |-> TRUE, lines |-> file.lines]

Buffered(file, r, write_header) == file

\* csv.DictWriter(f, fieldnames=list(row.keys())); if write_header:
\* writer.writeheader(); writer.writerow(row); the with block closes the file.
Written(file, r, write_header) ==
    [exists |-> TRUE,
     lines |-> file.lines
                 \o (IF write_header THEN <<HeaderLine(r)>> ELSE << >>)
                 \o <<RowLine(r)>>]

SinkErrorSwallowed ==
    /\ pc' = "loop"
    /\ idx' = idx + 1
    /\ fr' = EmptyFrame
    /\ UNCHANGED hist

\* The OSError of open() or of a write is not caught: it leaves main().
OnSinkError ==
    /\ Crash("SinkError")
    /\ UNCHANGED <<idx, fr>>

\* main(): print the row; write_header = not os.path.exists(OUT_CSV);
\* open(OUT_CSV, "a", newline="")
OpenSink ==
    /\ pc = "append"
    /\ \E ok \in BOOLEAN :
          IF ok
          THEN /\ fr' = [fr EXCEPT !.write_header = ~sink.exists]
               /\ sink' = Opened(sink)
               /\ pc' = "write"
               /\ UNCHANGED <<idx, hist>>
          ELSE /\ OnSinkError
               /\ UNCHANGED sink
    /\ UNCHANGED <<prog, reps, cells, schedule, row, box, polls, moving, rng, mt, runhist, app>>

\* main(): the body of the with block and its exit; the header and the row
\* reach the file together when it is closed.  Next iteration.
WriteRow ==
    /\ pc = "write"
    /\ \E ok \in BOOLEAN :
          IF ok
          THEN /\ sink' = Written(sink, row, fr.write_header)
               /\ idx' = idx + 1
               /\ fr' = EmptyFrame
               /\ pc' = "loop"
               /\ UNCHANGED hist
          ELSE /\ OnSinkError
               /\ UNCHANGED sink
    /\ UNCHANGED <<prog, reps, cells, schedule, row, box, polls, moving, rng, mt, runhist, app>>

Next ==
    \/ MainStart
    \/ LoopNext
    \/ DockerRun
    \/ GetPid
    \/ Probe
    \/ BaselineCheck
    \/ BaselineRead
    \/ WaitForCgroup
    \/ BaselineM
    \/ PollCheck
    \/ PollRead
    \/ PollRunning
    \/ FinalCheck
    \/ FinalRead
    \/ GetExitCode
    \/ Remove
    \/ OpenSink
    \/ WriteRow

Spec == Init /\ [][Next]_vars

----------------------------------------------------------------------------
(* The schedule alone: main() builds it for any repetition count and any   *)
(* outputs of the generator, and its for loop consumes it; what run_one    *)
(* and the append do inside the loop body is left open.                    *)

SchedInit ==
    /\ prog \in Programs
    /\ reps \in 1..MaxSchedReps
    /\ cells \in CellChoices(prog)
    /\ schedule = << >>
    /\ idx = 1
    /\ pc = "main"
    /\ fr = EmptyFrame
    /\ row = NoRow
    /\ sink = NoFile
    /\ box = NoBox
    /\ polls = 0
    /\ moving = {}
    /\ hist = EmptyHist
    /\ rng \in Unseeded
    /\ mt \in [{Seed(prog)} -> Streams]
    /\ runhist = EmptyRun
    /\ app = AppOff

\* for (...) in schedule: row = run_one(...); ...append...  The body returns
\* and the loop takes the next entry, or an exception leaves main().
ForEach ==
    /\ pc = "loop"
    /\ IF idx <= Len(schedule)
       THEN /\ runhist' = [runhist EXCEPT !.started = Append(@, Trial)]
            /\ \E returns \in BOOLEAN :
                  IF returns
                  THEN /\ idx' = idx + 1
                       /\ UNCHANGED <<pc, hist>>
                  ELSE /\ Crash("Exception")
                       /\ UNCHANGED idx
       ELSE /\ pc' = "done"
            /\ UNCHANGED <<idx, hist, runhist>>
    /\ UNCHANGED <<prog, reps, cells, schedule, fr, row, sink, box, polls, moving,
                   rng, mt, app>>

SchedNext ==
    \/ MainStart
    \/ ForEach

SchedSpec == SchedInit /\ [][SchedNext]_vars

----------------------------------------------------------------------------
(* The workload engine, app/main.py: one behaviour is one invocation of    *)
(* main() with a command line.  Sizes are bytes.  Reads and writes of the  *)
(* scratch file succeed; memory is not limited.                            *)

\* argparse: choices of --workload and --mitigation, defaults of --size_mib
\* and --hold_ms.
Workloads == {"cpu", "mem", "disk", "mix", "secret"}
Mitigations == {"none", "low", "high"}
DefaultSizeMib == 128
DefaultHoldMs == 2000

\* Exit statuses: normal return, SystemExit with a message, argparse error.
ExitOk == 0
ExitSystemExit == 1
ExitUsage == 2

\* Command lines tried: every workload and mitigation and one word outside
\* the choices, levels around 0..3, the default payload size and a small one.
ArgvChoices ==
    [workload : Workloads \cup {"bogus"},
     N : -1..4,
     size_mib : {1, DefaultSizeMib},
     mitigation : Mitigations \cup {"bogus"},
     hold_ms : {DefaultHoldMs}]

\* The engine before main() runs.  raw, comp: lengths of the buffers, -1
\* before they exist; target: target_bytes, -1 for None and before it is
\* chosen; file: size of /tmp/secret.out, -1 while there is no such file;
\* remaining: the local of pad_file_to_target; synced: size of the file at
\* os.fsync, -1 before; status: exit status, -1 while running; log: the steps
\* of the workload done so far.
AppStart(argv) ==
    [pc |-> "parse", argv |-> argv,
     raw |-> -1, comp |-> -1, target |-> -1, file |-> -1, remaining |-> 0,
     synced |-> -1, status |-> -1, log |-> << >>]

AppInit ==
    /\ prog = "mitigation"
    /\ reps = 1
    /\ cells = CHOOSE c \in CellChoices("mitigation") : Len(c) = 1
    /\ schedule = << >>
    /\ idx = 1
    /\ pc = "engine"
    /\ fr = EmptyFrame
    /\ row = NoRow
    /\ sink = NoFile
    /\ box = NoBox
    /\ polls = 0
    /\ moving = {}
    /\ hist = EmptyHist
    /\ rng = CHOOSE g \in Unseeded : TRUE
    /\ mt = [a \in {Seed("mitigation")} |-> Twister(a)]
    /\ runhist = EmptyRun
    /\ app \in {AppStart(argv) : argv \in ArgvChoices}

\* The variables of the orchestrator, which the engine leaves alone.
runnerVars == <<prog, reps, cells, schedule, idx, pc, fr, row, sink, box, polls,
                moving, hist, rng, mt, runhist>>

\* The process ends with status c.
Exited(a, c) == [a EXCEPT !.pc = "exited", !.status = c]

\* p.parse_args(): a value outside the choices ends the process with status 2.
ParseArgs ==
    /\ app.pc = "parse"
    /\ app' = IF app.argv.workload \in Workloads /\ app.argv.mitigation \in Mitigations
              THEN [app EXCEPT !.pc = "dispatch"]
              ELSE Exited(app, ExitUsage)
    /\ UNCHANGED runnerVars

AnyLevel(n) == TRUE

\* args.N in (0, 1, 2, 3)
ValidSecretLevel(n) == n \in {0, 1, 2, 3}

\* main(): the if / elif chain on args.workload.  cpu_work, mem_work,
\* disk_work and mix_work run to their end here; for secret the level is
\* checked (SystemExit) before secret_work is entered.
Dispatch ==
    /\ app.pc = "dispatch"
    /\ app' = IF app.argv.workload # "secret"
              THEN [app EXCEPT !.pc = "hold", !.log = Append(@, app.argv.workload)]
              ELSE IF ValidSecretLevel(app.argv.N)
                   THEN [app EXCEPT !.pc = "generate"]
                   ELSE Exited(app, ExitSystemExit)
    /\ UNCHANGED runnerVars

\* make_entropy_buffer(secret_N, size_mib): size_mib * 1024 * 1024 bytes on
\* each of its four branches.
make_entropy_buffer(secret_N, size_mib) == size_mib * MiB

\* secret_work: raw = make_entropy_buffer(secret_N, size_mib)
MakeEntropyBuffer ==
    /\ app.pc = "generate"
    /\ app' = [app EXCEPT !.raw = make_entropy_buffer(app.argv.N, app.argv.size_mib),
                          !.log = Append(@, "generate"),
                          !.pc = "compress"]
    /\ UNCHANGED runnerVars

\* gzip: 10 bytes of header and 8 of trailer around the deflate stream.
GzipFraming == 18
\* The best deflate does: about 1032 input bytes per output byte.
DeflateBestRatio == 1032

\* The lengths gzip level 6 may give n bytes.  Levels 0, 1, 2 make periodic
\* buffers (one byte, "ABCD", and the low 4 bits of a power-of-two modulus
\* congruential generator: period 16), which deflate shrinks to a small
\* fraction; level 3 is os.urandom, which deflate cannot shrink: the input
\* plus framing, up to zlib's bound for stored blocks.
GzipSizes(secret_N, n) ==
    IF secret_N \in {0, 1, 2}
    THEN {n \div (DeflateBestRatio \div k) + GzipFraming : k \in 1..3}
    ELSE {n + GzipFraming,
          n + (n \div 4096) + (n \div 16384) + (n \div 33554432) + 13 + GzipFraming}

\* secret_work: gzip.GzipFile(...).write(raw); comp = bio.getvalue()
Compress ==
    /\ app.pc = "compress"
    /\ \E c \in GzipSizes(app.argv.N, app.raw) :
          app' = [app EXCEPT !.comp = c, !.log = Append(@, "compress"), !.pc = "target"]
    /\ UNCHANGED runnerVars

\* target_bytes of secret_work: None for "none" (here -1).
TargetBytes(mitigation) ==
    CASE mitigation = "none" -> -1
      [] mitigation = "low"  -> 64 * MiB
      [] mitigation = "high" -> 140 * MiB

\* secret_work: the if / elif chain on mitigation; SystemExit for any other.
ChooseTarget ==
    /\ app.pc = "target"
    /\ app' = IF app.argv.mitigation \in Mitigations
              THEN [app EXCEPT !.target = TargetBytes(app.argv.mitigation), !.pc = "write"]
              ELSE Exited(app, ExitSystemExit)
    /\ UNCHANGED runnerVars

OutputStepSyncFirst(p) ==
    CASE p = "write" -> "sync"
      [] p = "sync" -> "pad"
      [] p = "pad" -> "remove"

\* secret_work, the order of the statements on the open file and after it:
\* f.write(comp); the padding; f.flush() and os.fsync(); os.remove(out_path).
OutputStep(p) ==
    CASE p = "write" -> "pad"
      [] p = "pad" -> "sync"
      [] p = "sync" -> "remove"

\* secret_work: with open(out_path, "wb") as f: f.write(comp)
WriteOutput ==
    /\ app.pc = "write"
    /\ app' = [app EXCEPT !.file = app.comp, !.log = Append(@, "write"),
                          !.pc = OutputStep("write")]
    /\ UNCHANGED runnerVars

\* secret_work: if target_bytes is not None: pad_file_to_target(f,
\* current_size=len(comp), target_size=target_bytes), up to its loop:
\* if current_size >= target_size: return; remaining = target_size - current_size
PadOutput ==
    /\ app.pc = "pad"
    /\ app' = IF app.target = -1
              THEN [app EXCEPT !.pc = OutputStep("pad")]
              ELSE IF app.comp >= app.target
                   THEN [app EXCEPT !.log = Append(@, "pad"), !.pc = OutputStep("pad")]
                   ELSE [app EXCEPT !.log = Append(@, "pad"),
                                    !.remaining = app.target - app.comp,
                                    !.pc = "pad_loop"]
    /\ UNCHANGED runnerVars

\* pad_file_to_target: while remaining > 0: n = min(len(chunk), remaining);
\* f.write(chunk[:n]); remaining -= n      (chunk is 1 MiB of zeros)
PadChunk ==
    /\ app.pc = "pad_loop"
    /\ app' = IF app.remaining > 0
              THEN LET n == IF MiB <= app.remaining THEN MiB ELSE app.remaining
                   IN  [app EXCEPT !.file = @ + n, !.remaining = @ - n]
              ELSE [app EXCEPT !.pc = OutputStep("pad")]
    /\ UNCHANGED runnerVars

\* secret_work: f.flush(); os.fsync(f.fileno()); the with block closes f.
SyncOutput ==
    /\ app.pc = "sync"
    /\ app' = [app EXCEPT !.synced = app.file, !.log = Append(@, "sync"),
                          !.pc = OutputStep("sync")]
    /\ UNCHANGED runnerVars

\* secret_work: os.remove(out_path), FileNotFoundError ignored.
RemoveOutput ==
    /\ app.pc = "remove"
    /\ app' = [app EXCEPT !.file = -1, !.log = Append(@, "remove"), !.pc = "hold"]
    /\ UNCHANGED runnerVars

\* main(): time.sleep(args.hold_ms / 1000.0), then the process ends.
Hold ==
    /\ app.pc = "hold"
    /\ app' = Exited([app EXCEPT !.log = Append(@, "hold")], ExitOk)
    /\ UNCHANGED runnerVars

AppNext ==
    \/ ParseArgs
    \/ Dispatch
    \/ MakeEntropyBuffer
    \/ Compress
    \/ ChooseTarget
    \/ WriteOutput
    \/ PadOutput
    \/ PadChunk
    \/ SyncOutput
    \/ RemoveOutput
    \/ Hold

AppSpec == AppInit /\ [][AppNext]_vars

----------------------------------------------------------------------------
(* Claims. *)

SetMax(S) == CHOOSE x \in S : \A y \in S : y <= x

\* Exceptions that leave run_one (the sink's error is raised in main).
RunOneExceptions == {"CalledProcessError", "FileNotFoundError", "OSError"}

\* C1: once the sandbox of a trial has been created, run_one returns a row
\* and never raises, whatever the pid lookup, the probe and the reads do.
C1_RunOneNeverRaises ==
    hist.created => hist.exc \notin RunOneExceptions

\* C2: a polling read that fails while the sandbox is still reported running
\* ends the polling loop and the trial goes on to its result; the failure
\* never leaves run_one.
C2_PollFailureEndsSampling ==
    [][(pc = "poll_read" /\ pc' # "poll_running" /\ is_running(box'))
          => pc' = LoopExitPc(prog)]_vars

\* C3: a sandbox that fails to start does not stop the run: the trial is
\* recorded and the schedule goes on.
C3_StartFailureIsRecorded ==
    ~(pc = "crashed" /\ hist.exc = "CalledProcessError")

\* C4: whenever a trial whose sandbox was created has ended (its row is about
\* to be appended, or main has stopped), the removal of its sandbox has been
\* attempted.
C4_RemovalAlwaysAttempted ==
    (hist.created /\ pc \in {"append", "loop", "done", "crashed"}) => hist.rm >= 1

\* C5: the removal never raises, and the returned row is the row run_one
\* would have returned had docker rm ended with the other return code.
C5_RemovalOutcomeIrrelevant ==
    /\ (pc = "crashed" /\ hist.rm > 0) => hist.exc = "SinkError"
    /\ pc = "append" => (hist.rm = 1 /\ row = Result(prog, Trial, fr, 1 - hist.rc))

C5_Witness ==
    pc = "append" /\ hist.rm = 1 /\ hist.rc = 1 /\ row # NoRow

NonNegativeColumns ==
    {"runtime_ms", "avg_cpu_percent", "max_mem_mib", "blk_read_mib", "blk_write_mib"}

\* C6: in every returned row runtime_ms, avg_cpu_percent, max_mem_mib,
\* blk_read_mib and blk_write_mib are >= 0, also when the end sample is below
\* the baseline.
C6_RowNonNegative ==
    row # NoRow => \A k \in NonNegativeColumns : Field(row, k) >= 0

C6_Witness ==
    /\ pc = "append" /\ fr.path = "complete"
    /\ \/ EndSample(prog, fr).cpu < fr.s0.cpu
       \/ EndSample(prog, fr).rd < fr.s0.rd
    /\ Field(row, "avg_cpu_percent") = 0 /\ Field(row, "blk_read_mib") = 0

\* C7: in a complete row the CPU and I/O deltas are max(0, L - baseline) for
\* L the last sample read successfully during the trial.
C7_DeltasFromLastRead ==
    (pc = "append" /\ fr.path = "complete") =>
        /\ Field(row, "avg_cpu_percent") =
              AvgCpuPercent(IF hist.last.cpu > hist.base.cpu
                            THEN hist.last.cpu - hist.base.cpu ELSE 0,
                            fr.runtime_ns)
        /\ Field(row, "blk_read_mib") =
              (IF hist.last.rd > hist.base.rd
               THEN hist.last.rd - hist.base.rd ELSE 0) \div MiB
        /\ Field(row, "blk_write_mib") =
              (IF hist.last.wr > hist.base.wr
               THEN hist.last.wr - hist.base.wr ELSE 0) \div MiB

\* C8: while a trial is sampled the running peak is the largest mem value
\* read successfully so far, baseline included (so it never decreases), and
\* a complete row reports that peak.
C8_PeakIsMaxOfReads ==
    /\ fr.s0 # None => fr.mem_peak = SetMax(hist.mems)
    /\ (pc = "append" /\ fr.path = "complete") =>
          Field(row, "max_mem_mib") = SetMax(hist.mems) \div MiB

C8_Witness ==
    /\ pc = "append" /\ fr.path = "complete"
    /\ Cardinality(hist.mems) > 1
    /\ hist.last.mem < SetMax(hist.mems)
    /\ hist.base.mem < SetMax(hist.mems)

AccountingColumns ==
    {"avg_cpu_percent", "max_mem_mib", "blk_read_mib", "blk_write_mib"}

\* C9: a trial without a usable pid, or without a baseline sample, returns a
\* row whose accounting columns are all 0.
C9_DegradedRowIsZero ==
    (pc = "append" /\ (fr.pid <= 0 \/ hist.base = None)) =>
        \A k \in AccountingColumns : Field(row, k) = 0

C9_Witness ==
    /\ pc = "append" /\ fr.pid > 0 /\ hist.base = None
    /\ Field(row, "exit_code") # 0 /\ Field(row, "runtime_ms") > 0

\* C10: a trial without a usable pid returns a row with a non-zero exit_code.
C10_NoPidExitCodeNonZero ==
    (pc = "append" /\ fr.pid <= 0) => Field(row, "exit_code") # 0

\* C11: the order in which a run executes its trials is fixed by its cells,
\* its repetition count and its seed: whatever state the generator was in
\* when main() started and whatever the earlier trials returned, the schedule
\* is the shuffle of the cross-product under the seed's outputs, and the
\* trials run_one has been called with are its first entries, in order.
C11_OrderFixedBySeed ==
    pc # "main" =>
        /\ schedule = Shuffle(Unshuffled(prog, cells, reps), mt[Seed(prog)])
        /\ runhist.started = SubSeq(schedule, 1, Len(runhist.started))
        /\ Len(runhist.started) \in {idx - 1, idx}

C11_Witness ==
    /\ pc = "docker_run" /\ idx = 2
    /\ Len(runhist.started) = 2
    /\ runhist.started[1] # runhist.started[2]
    /\ Len(sink.lines) >= 2

\* C12: the schedule is a permutation of the cross-product: it has
\* |cells| x reps entries and every (cell, repetition) pair with repetition
\* in 0..reps-1 occurs in it exactly once; the loop takes its entries one by
\* one, none twice, and a run that ends normally has taken them all.
C12_ScheduleIsPermutation ==
    pc # "main" =>
        /\ Len(schedule) = Len(cells) * reps
        /\ \A c \in 1..Len(cells), r \in 0..(reps - 1) :
              Cardinality({k \in 1..Len(schedule) :
                              schedule[k] = Descriptor(prog, cells[c], r)}) = 1
        /\ runhist.started = SubSeq(schedule, 1, Len(runhist.started))
        /\ pc = "done" => runhist.started = schedule

C12_Witness ==
    /\ pc = "done"
    /\ Len(schedule) = 2 * MaxSchedReps
    /\ schedule # Unshuffled(prog, cells, reps)
    /\ schedule[1] = Unshuffled(prog, cells, reps)[3]
    /\ runhist.started = schedule

\* The rows this run has written to the sink (a row an earlier run left
\* carries that run's id, 0).
RunRows(file) == SelectSeq(file.lines, LAMBDA l : ~l.header /\ l.cols[1] # 0)

\* C13: the rows of the trials before the current one are in the sink, in
\* order, before the current trial's sandbox is created: wherever the run is
\* stopped, at most the trial in flight has no row.
C13_RowBeforeNextSandbox ==
    pc # "main" =>
        /\ Len(RunRows(sink)) >= Len(runhist.started) - 1
        /\ \A k \in 1..Len(RunRows(sink)) :
              RunRows(sink)[k].cols =
                  Values(DescriptorColumns(prog, runhist.started[k], k))
                      \o SubSeq(RunRows(sink)[k].cols, 6, 11)
        /\ (pc = "docker_run" \/ box.exists) =>
              Len(RunRows(sink)) = Len(runhist.started) - 1

C13_Witness ==
    /\ box.exists /\ idx = 2
    /\ Len(RunRows(sink)) = 1
    /\ Len(runhist.started) = 2

\* C14: a sink that holds a row holds exactly one header line, and it is the
\* first line.
C14_OneHeaderFirst ==
    (\E k \in 1..Len(sink.lines) : ~sink.lines[k].header) =>
        /\ sink.lines[1].header
        /\ \A k \in 2..Len(sink.lines) : ~sink.lines[k].header

IsPrefix(a, b) == Len(a) <= Len(b) /\ SubSeq(b, 1, Len(a)) = a

\* C15: no step of the orchestrator, the start of a run included, removes
\* or changes a line the sink holds: the old contents are a prefix of the new.
C15_SinkAppendOnly ==
    [][IsPrefix(sink.lines, sink'.lines)]_vars

\* C16: the run never goes on past a row that did not reach the sink: every
\* trial before the current one has its row there, and once the append has
\* failed main() has stopped with that error, the sandbox of the failed
\* trial removed and no later trial started.
C16_SinkFailureStopsRun ==
    /\ pc # "main" => Len(RunRows(sink)) = idx - 1
    /\ hist.exc = "SinkError" =>
          /\ pc = "crashed"
          /\ Len(runhist.started) = idx
          /\ runhist.live = {}

C16_Witness ==
    /\ pc = "crashed" /\ hist.exc = "SinkError"
    /\ idx = 1 /\ Len(schedule) = 2
    /\ sink = EmptyFile

\* Control points of run_one before the polling loop, and in it.
StartingPcs == {"get_pid", "probe", "base_check", "base_read", "wait_cg", "base_m"}
PollPcs == {"poll_check", "poll_read", "poll_running"}

\* C17: at most one sandbox of the run exists at a time, and it is the
\* current trial's; while a trial is starting or being sampled, the exit
\* code of every earlier trial has been read.
C17_OneSandboxAtATime ==
    /\ Cardinality(runhist.live) <= 1
    /\ runhist.live \subseteq {idx}
    /\ pc \in StartingPcs \cup PollPcs \cup {"docker_run", "final_check", "final_read"} =>
          runhist.codes = Len(runhist.started) - 1

C17_Witness ==
    /\ idx = 2 /\ pc = "poll_read"
    /\ runhist.live = {2}
    /\ runhist.codes = 1
    /\ box.alive

\* C20: the Starting phase makes at most BaselineTries read attempts and
\* waits at most WaitTimeoutMs; the polling loop is entered only with a
\* baseline sample; and a trial that got no baseline sample ends in the
\* degraded result, never in an exception out of run_one.
C20_StartingIsBounded ==
    /\ fr.tries <= BaselineTries
    /\ fr.waited <= WaitTimeoutMs
    /\ pc \in PollPcs => fr.s0 # None
    /\ (pc = "crashed" /\ hist.created /\ hist.exc \in RunOneExceptions) =>
          hist.base # None

\* C18: with the default payload size, under mitigation "low" and under
\* "high" the scratch file has one size at the final sync whatever the
\* secret level and the compressed length: the level's target (the size
\* a level-0 payload is padded to).
C18_PaddedSizeIsConstant ==
    (/\ app.pc # "off"
     /\ app.synced # -1
     /\ app.argv.size_mib = DefaultSizeMib
     /\ app.argv.mitigation \in {"low", "high"}) =>
        app.synced = TargetBytes(app.argv.mitigation)

\* The steps of secret_work that make, compress or write a payload.
PayloadSteps == {"generate", "compress", "write", "pad", "sync"}

\* C19: an invocation for workload secret with a level outside 0..3 never
\* generates, compresses or writes a payload and ends with a non-zero
\* status; with a level in 0..3 and a mitigation among none, low, high it
\* goes on until it has synced and removed its output and held, and ends
\* with status 0.
C19_SecretLevelValidated ==
    (app.pc # "off" /\ app.argv.workload = "secret") =>
        /\ app.argv.N \notin 0..3 =>
              /\ \A k \in 1..Len(app.log) : app.log[k] \notin PayloadSteps
              /\ app.raw = -1 /\ app.comp = -1 /\ app.file = -1 /\ app.synced = -1
              /\ app.pc = "exited" => app.status # ExitOk
        /\ (app.argv.N \in 0..3 /\ app.argv.mitigation \in Mitigations) =>
              /\ app.pc # "exited" => ENABLED AppNext
              /\ app.pc = "exited" =>
                    /\ app.status = ExitOk
                    /\ app.synced # -1 /\ app.file = -1
                    /\ app.log[Len(app.log)] = "hold"

C19_Witness ==
    /\ app.pc = "exited"
    /\ app.argv.workload = "secret" /\ app.argv.N = 4
    /\ app.argv.mitigation = "high"
    /\ app.status = ExitSystemExit
    /\ app.log = << >>

\* C21: in a trial whose sandbox exposes a pid, the cgroup source is chosen
\* exactly when the "0::" directory of the process holds both cpu.stat and
\* memory.current at the probe; and such a trial takes the degraded return
\* only when its process is gone, never while the process is running and
\* /proc/<pid> could be sampled.
C21_FallbackNotDegraded ==
    [][/\ pc = "probe" =>
             (fr'.use_cg <=> (fr'.cg # "None" /\ CgFiles \subseteq box'.files))
       /\ (pc = "wait_cg" /\ pc' = "base_m") =>
             (fr'.use_cg /\ CgFiles \subseteq box'.files)
       /\ (pc \in StartingPcs /\ fr'.path = "nobase") =>
             ~(box'.alive /\ proc_exists(box'))]_vars

\* C22: the samples of one trial all come from one source, the one chosen
\* before the baseline read: use_cg does not change once a sample has been
\* read, and the baseline, the polling samples and the final sample (hence
\* every delta and the peak) are read from the source use_cg names, also
\* when cpu.stat and memory.current appear or vanish during the trial.
C22_OneSourcePerTrial ==
    /\ Cardinality(hist.srcs) <= 1
    /\ fr.s0 # None =>
          hist.srcs = {IF fr.use_cg THEN "cgroup" ELSE "proc"}
    /\ prog = "mitigation" => hist.srcs \subseteq {"cgroup"}

\* The /proc source was chosen, both files appeared later, and a polling
\* sample was still read from /proc.
C22_Witness ==
    /\ pc = "poll_running"
    /\ prog = "experiment" /\ ~fr.use_cg /\ fr.cg # "None"
    /\ CgFiles \subseteq box.files
    /\ hist.srcs = {"proc"}
    /\ hist.last # hist.base

\* C23: the polling loop is left only to the statement after it, never by
\* an exception, and it is left in the very iteration that observes the
\* exit: when /proc/<pid> is gone, when the accounting read fails, or when
\* docker reports the sandbox not running.  It goes round again only after
\* a successful read and a liveness check that found the sandbox running.
C23_PollingLoopTerminates ==
    [][(pc \in PollPcs) =>
         (/\ pc' \in PollPcs \cup {LoopExitPc(prog)}
          /\ (pc = "poll_check" /\ ~proc_exists(box')) => pc' = LoopExitPc(prog)
          /\ pc = "poll_read" => pc' \in {"poll_running", LoopExitPc(prog)}
          /\ (pc = "poll_running" /\ ~is_running(box')) => pc' = LoopExitPc(prog)
          /\ (pc = "poll_running" /\ pc' \in PollPcs) =>
                (is_running(box') /\ polls' = polls + 1))]_vars

\* C24: on the complete path the exit code is read from a sandbox that has
\* exited and that docker no longer reports as running, so the exit_code of
\* a complete row is a termination code, never the 0 that docker inspect
\* prints for a container still in state Running.
C24_ExitCodeOfExitedSandbox ==
    [][(pc = "exit_code" /\ fr.path = "complete") =>
          (~box'.alive /\ ~is_running(box'))]_vars

\* C25: on each of the three paths the exit code is read while the sandbox
\* still exists and before docker rm -f has run, and the row carries the
\* code that was read then; get_exit_code is never asked about a sandbox
\* that is gone, the case in which it falls back to 1.
C25_ExitCodeBeforeRemoval ==
    /\ pc = "exit_code" => (box.exists /\ hist.rm = 0 /\ fr.exit_code = -1)
    /\ pc = "rm" => (box.exists /\ hist.rm = 0 /\ fr.exit_code \in get_exit_code(box))
    /\ pc \in {"append", "write"} =>
          /\ hist.rm = 1 /\ ~box.exists
          /\ fr.exit_code \in ExitCodes
          /\ Field(row, "exit_code") = fr.exit_code

\* A degraded row whose exit code 0 was read from the sandbox before removal.
C25_Witness ==
    /\ pc = "append" /\ fr.path = "nobase"
    /\ Field(row, "exit_code") = 0
    /\ hist.rm = 1 /\ box = NoBox

\* The steps of a successful secret_work and the hold, in order, for a
\* mitigation m.
SecretOrder(m) ==
    <<"generate", "compress", "write">>
        \o (IF m \in {"low", "high"} THEN <<"pad">> ELSE << >>)
        \o <<"sync", "remove", "hold">>

\* C26: the steps of the secret workload happen in the order generate,
\* compress, write, pad (when mitigation is low or high, and only then),
\* sync, remove, hold; the file does not change once it has been synced;
\* and the process ends with status 0 only after all of them, the scratch
\* file gone.
C26_SecretStepOrder ==
    (app.pc # "off" /\ app.argv.workload = "secret") =>
        /\ IsPrefix(app.log, SecretOrder(app.argv.mitigation))
        /\ (app.synced # -1 /\ app.file # -1) => app.file = app.synced
        /\ (app.pc = "exited" /\ app.status = ExitOk) =>
              /\ app.log = SecretOrder(app.argv.mitigation)
              /\ app.file = -1

\* A run that padded its output up to the target before the sync.
C26_Witness ==
    /\ app.pc = "exited" /\ app.status = ExitOk
    /\ app.argv.workload = "secret" /\ app.argv.mitigation = "low"
    /\ app.synced = TargetBytes("low") /\ app.comp < app.synced
    /\ app.log = <<"generate", "compress", "write", "pad", "sync", "remove", "hold">>

\* The keys of the dict run_one returns, in order.
Columns(p) ==
    IF p = "experiment"
    THEN <<"run_id", "workload", "intensity", "N", "rep", "runtime_ms",
           "avg_cpu_percent", "max_mem_mib", "blk_read_mib", "blk_write_mib",
           "exit_code">>
    ELSE <<"run_id", "workload", "secret_N", "mitigation", "rep", "runtime_ms",
           "avg_cpu_percent", "max_mem_mib", "blk_read_mib", "blk_write_mib",
           "exit_code">>

\* C27: the row of every trial, complete or degraded, has the columns of
\* its orchestrator in their one order; a header line of the sink names
\* exactly those columns, and every row line of the sink has one value for
\* each of them.
C27_RowsMatchHeader ==
    /\ pc \in {"append", "write"} =>
          /\ Keys(row) = Columns(prog)
          /\ (sink.lines # << >> /\ sink.lines[1].header) =>
                Keys(row) = sink.lines[1].cols
    /\ \A k \in 1..Len(sink.lines) :
          IF sink.lines[k].header
          THEN sink.lines[k].cols = Columns(prog)
          ELSE Len(sink.lines[k].cols) = Len(Columns(prog))

\* A degraded row (no baseline) about to be written, without a header of
\* its own, under the header the first trial's row was written with.
C27_Witness ==
    /\ pc = "write" /\ idx = 2 /\ ~fr.write_header
    /\ fr.path = "nobase"
    /\ Len(sink.lines) = 2 /\ sink.lines[1].header
    /\ sink.lines[2].cols[1] = 1

====
